---- MODULE Spec2Model ----
(***************************************************************************)
(* Model of the mentoring-session marketplace of src/main.py: a Streamlit  *)
(* script run by several browser sessions against one MongoDB database.    *)
(* Every store call (find, insert_one, update_one) is one atomic step; the *)
(* steps of different sessions interleave freely.  Timestamps and the      *)
(* descriptive startup fields (sector, stage, contact) are not modelled.   *)
(***************************************************************************)
EXTENDS Integers, Sequences, FiniteSets, TLC

\* ---------------------------------------------------------------- bounds
MaxOffers == 2
MaxRequests == 2
\* offers and requests together
MaxDocs == 3
\* store calls that raise, and expiries of the cached list, in one behaviour
MaxErrors == 1
MaxExpiries == 1
\* offers in the ledger and the race specifications
MaxLedgerOffers == 1
MaxRaceOffers == 1
MaxRaceRequests == 1
\* offers in the allotment specification
MaxAllotOffers == 3

\* ------------------------------------------------------------- universe
Sessions == {"u1", "u2"}
StartupIds == {"s1", "s2", "s3"}
\* what the users type at lines 172 and 226
OfferTopics == {"Fundraising"}
RequestTopics == {"Fundraising", "Marketing"}

\* company name of each startup document
company == ("s1" :> "A") @@ ("s2" :> "B") @@ ("s3" :> "C")
\* the dictionary of line 159
startup_name_to_id == [n \in {company[i] : i \in StartupIds} |->
                         CHOOSE i \in StartupIds : company[i] = n]

None == "None"
\* the null of an ObjectId-valued field; offer ids are 1..Len(offers)
NoneId == 0

ALLOTTED == "sessions_allotted_to_receive"
RECEIVED == "sessions_received"
LENT == "sessions_lent"
CounterFields == {ALLOTTED, RECEIVED, LENT}

\* ---------------------------------------------------- document helpers
\* dict.get(key, default)
Get(doc, f, d) == IF f \in DOMAIN doc THEN doc[f] ELSE d

\* update_one {"$set": upd}
SetFields(doc, upd) ==
  [f \in (DOMAIN doc) \cup (DOMAIN upd) |-> IF f \in DOMAIN upd THEN upd[f] ELSE doc[f]]

\* update_one {"$inc": {f: 1}}; an absent field counts from 0
IncField(doc, f) == SetFields(doc, f :> (Get(doc, f, 0) + 1))

\* a startup document without any counter field, as registration leaves it
NoCounters == [f \in {} |-> 0]
\* a startup document whose counters were initialised
DefaultCounters == (ALLOTTED :> 2) @@ (RECEIVED :> 0) @@ (LENT :> 0)

VARIABLES
  startups,                \* startups_collection: id -> counter fields of the document
  offers,                  \* session_offers_collection, _id = index
  requests,                \* session_requests_collection, _id = index
  history,                 \* session_history_collection
  cache,                   \* st.cache_data entry of load_all_startups: <<>> or <<snapshot>>
  pc,                      \* position of each session's script run
  pending,                 \* the interaction that triggered the run
  selected_name,           \* selectbox of line 86
  selected_startup_data,   \* counters of the selected startup after lines 95-103
  offering_startup_name,
  offer_topic,
  selected_offer_id,
  claiming_startup_name,
  selected_offer_doc,
  matching_request,
  pre,                     \* history variable: store as the running claim found it, NoSnap once another session wrote
  quota                    \* limits of the behaviour: documents inserted, store errors and cache expiries left

store == <<startups, offers, requests, history>>
offerLocals == <<offering_startup_name, offer_topic>>
claimLocals == <<selected_offer_id, claiming_startup_name, selected_offer_doc, matching_request>>
dashLocals == <<selected_name, selected_startup_data>>
vars == <<startups, offers, requests, history, cache, pc, pending, selected_name,
          selected_startup_data, offering_startup_name, offer_topic, selected_offer_id,
          claiming_startup_name, selected_offer_doc, matching_request, pre, quota>>

\* the options of the selectboxes: the companies of the registered startups (lines 83, 158)
startup_names == {company[i] : i \in DOMAIN startups}

NoSnap == [valid |-> FALSE]
NoDoc == [offering_startup_id |-> None, offering_startup_name |-> None, topic |-> None,
          status |-> None, claimed_by_startup_id |-> None, claimed_by_startup_name |-> None]

InitRun ==
  /\ offers = <<>>
  /\ requests = <<>>
  /\ history = <<>>
  /\ cache = <<>>
  /\ pc = [s \in Sessions |-> "idle"]
  /\ pending = [s \in Sessions |-> "view"]
  /\ selected_name = [s \in Sessions |-> None]
  /\ selected_startup_data = [s \in Sessions |-> NoCounters]
  /\ offering_startup_name = [s \in Sessions |-> None]
  /\ offer_topic = [s \in Sessions |-> None]
  /\ selected_offer_id = [s \in Sessions |-> NoneId]
  /\ claiming_startup_name = [s \in Sessions |-> None]
  /\ selected_offer_doc = [s \in Sessions |-> NoDoc]
  /\ matching_request = [s \in Sessions |-> NoneId]
  /\ pre = [s \in Sessions |-> NoSnap]

\* the marketplace: two registered startups whose counters are initialised
Init ==
  /\ startups = [i \in {"s1", "s2"} |-> DefaultCounters]
  /\ quota = [offers |-> MaxOffers, requests |-> MaxRequests, docs |-> MaxDocs,
              errors |-> MaxErrors, expiries |-> 0]
  /\ InitRun

\* the ledger: two registered startups, each with or without its counter fields
InitLedger ==
  /\ startups \in [{"s1", "s2"} -> {NoCounters, DefaultCounters}]
  /\ quota = [offers |-> MaxLedgerOffers, requests |-> 0, docs |-> MaxLedgerOffers,
              errors |-> MaxErrors, expiries |-> MaxExpiries]
  /\ InitRun

\* the claim race: three registered startups whose counters are initialised
InitRace ==
  /\ startups = [i \in StartupIds |-> DefaultCounters]
  /\ quota = [offers |-> MaxRaceOffers, requests |-> MaxRaceRequests,
              docs |-> MaxRaceOffers + MaxRaceRequests, errors |-> 0, expiries |-> 0]
  /\ InitRun

\* the allotment: two startups with counters, three offers, no requests, no store errors
InitAllot ==
  /\ startups = [i \in {"s1", "s2"} |-> DefaultCounters]
  /\ quota = [offers |-> MaxAllotOffers, requests |-> 0, docs |-> MaxAllotOffers,
              errors |-> 0, expiries |-> 0]
  /\ InitRun

\* a store write of session s ends the undisturbed run of every other session
Disturb(s) == pre' = [t \in Sessions |-> IF t = s THEN pre[t] ELSE NoSnap]


\* ------------------------------------------------ dashboard and backfill
\* load_all_startups: the cached list while the entry lives, else a fresh read
load_all_startups == IF cache = <<>> THEN startups ELSE cache[1]

\* lines 95-103: some counter field is missing from the selected document
update_needed(doc) == \E f \in CounterFields : f \notin DOMAIN doc

\* lines 95-103: the selected document with the missing counters defaulted
WithDefaults(doc) == [f \in CounterFields |-> Get(doc, f, DefaultCounters[f])]

\* where the run goes after the initialisation block
Handler(what) ==
  CASE what = "offer" -> "offer_read"
    [] what = "request" -> "request_insert"
    [] what = "claim" -> "claim_select"
    [] OTHER -> "idle"

\* offers and requests the sessions are still about to insert
offersInFlight == Cardinality({t \in Sessions : pending[t] = "offer"})
requestsInFlight == Cardinality({t \in Sessions : pending[t] = "request"})
docsInFlight == Len(offers) + offersInFlight + Len(requests) + requestsInFlight

\* one script run up to line 120, for the startup selected at line 86
RunScript(s, name, what) ==
  LET all_startups == load_all_startups
      doc == all_startups[startup_name_to_id[name]]
  IN /\ cache' = <<all_startups>>
     /\ pending' = [pending EXCEPT ![s] = what]
     /\ IF update_needed(doc)
          THEN /\ pc' = [pc EXCEPT ![s] = "backfill"]
               /\ selected_name' = [selected_name EXCEPT ![s] = name]
               /\ selected_startup_data' = [selected_startup_data EXCEPT ![s] = WithDefaults(doc)]
          ELSE /\ pc' = [pc EXCEPT ![s] = Handler(what)]
               /\ selected_name' = [selected_name EXCEPT ![s] = None]
               /\ selected_startup_data' = [selected_startup_data EXCEPT ![s] = NoCounters]
     /\ UNCHANGED <<store, offerLocals, claimLocals, pre>>

\* a user picks a startup at line 86 and views, or submits a form, or presses the claim button
Interact(s) ==
  /\ pc[s] = "idle"
  /\ \E name \in startup_names, what \in {"view", "offer", "request", "claim"} :
       /\ what = "offer" => Len(offers) + offersInFlight < quota.offers
       /\ what = "request" => Len(requests) + requestsInFlight < quota.requests
       /\ what \in {"offer", "request"} => docsInFlight < quota.docs
       /\ RunScript(s, name, what)
       /\ UNCHANGED quota

\* lines 105-117 writing only the counters the stored document lacks
Backfill_absent(s) ==
  /\ UNCHANGED quota
  /\ pc[s] = "backfill"
  /\ startups' = [startups EXCEPT ![startup_name_to_id[selected_name[s]]] =
                    SetFields(@, [f \in CounterFields \ DOMAIN @ |-> selected_startup_data[s][f]])]
  /\ pc' = [pc EXCEPT ![s] = "rerun"]
  /\ pending' = [pending EXCEPT ![s] = "view"]
  /\ Disturb(s)
  /\ UNCHANGED <<offers, requests, history, cache, dashLocals, offerLocals, claimLocals>>

\* lines 105-117: the backfill write, then st.rerun (the pending form or button is dropped)
Backfill(s) ==
  /\ UNCHANGED quota
  /\ pc[s] = "backfill"
  /\ startups' = [startups EXCEPT ![startup_name_to_id[selected_name[s]]] =
                    SetFields(@, selected_startup_data[s])]
  /\ pc' = [pc EXCEPT ![s] = "rerun"]
  /\ pending' = [pending EXCEPT ![s] = "view"]
  /\ Disturb(s)
  /\ UNCHANGED <<offers, requests, history, cache, dashLocals, offerLocals, claimLocals>>

\* lines 118-119: the write raised; the run goes on to the handlers
BackfillFail(s) ==
  /\ quota.errors > 0
  /\ quota' = [quota EXCEPT !.errors = @ - 1]
  /\ pc[s] = "backfill"
  /\ pc' = [pc EXCEPT ![s] = Handler(pending[s])]
  /\ selected_name' = [selected_name EXCEPT ![s] = None]
  /\ selected_startup_data' = [selected_startup_data EXCEPT ![s] = NoCounters]
  /\ UNCHANGED <<store, cache, pending, offerLocals, claimLocals, pre>>

\* the run restarted by st.rerun at line 117
Rerun(s) ==
  /\ pc[s] = "rerun"
  /\ RunScript(s, selected_name[s], "view")
  /\ UNCHANGED quota

\* ttl=60 of line 49: the cached list expires
CacheExpire ==
  /\ cache # <<>>
  /\ quota.expiries > 0
  /\ cache' = <<>>
  /\ quota' = [quota EXCEPT !.expiries = @ - 1]
  /\ UNCHANGED <<store, pc, pending, dashLocals, offerLocals, claimLocals, pre>>

\* ------------------------------------------------------------ CreateOffer
\* line 189 written with >= for >
Eligible_geq(sessions_allotted, sessions_received) == sessions_allotted >= sessions_received

\* line 189
Eligible(sessions_allotted, sessions_received) == sessions_allotted > sessions_received

\* lines 192-200
NewOffer(id, name, topic) ==
  [offering_startup_id |-> id, offering_startup_name |-> name, topic |-> topic,
   status |-> "available", claimed_by_startup_id |-> None, claimed_by_startup_name |-> None]

\* lines 177-189 and 213-214: read the startup and decide
OfferRead(s) ==
  /\ UNCHANGED quota
  /\ pc[s] = "offer_read"
  /\ \E name \in startup_names, topic \in OfferTopics :
       LET current_startup_data == startups[startup_name_to_id[name]]
           sessions_allotted == Get(current_startup_data, ALLOTTED, 0)
           sessions_received == Get(current_startup_data, RECEIVED, 0)
       IN IF Eligible(sessions_allotted, sessions_received)
            THEN /\ pc' = [pc EXCEPT ![s] = "offer_insert"]
                 /\ offering_startup_name' = [offering_startup_name EXCEPT ![s] = name]
                 /\ offer_topic' = [offer_topic EXCEPT ![s] = topic]
                 /\ UNCHANGED pending
            ELSE /\ pc' = [pc EXCEPT ![s] = "offer_ineligible"]
                 /\ offering_startup_name' = [offering_startup_name EXCEPT ![s] = name]
                 /\ pending' = [pending EXCEPT ![s] = "view"]
                 /\ UNCHANGED offer_topic
  /\ UNCHANGED <<store, cache, dashLocals, claimLocals, pre>>

\* lines 192-200
OfferInsert(s) ==
  /\ UNCHANGED quota
  /\ pc[s] = "offer_insert"
  /\ offers' = Append(offers, NewOffer(startup_name_to_id[offering_startup_name[s]],
                                       offering_startup_name[s], offer_topic[s]))
  /\ pc' = [pc EXCEPT ![s] = "offer_inc"]
  /\ pending' = [pending EXCEPT ![s] = "view"]
  /\ Disturb(s)
  /\ UNCHANGED <<startups, requests, history, cache, dashLocals, offerLocals, claimLocals>>

\* lines 203-205 where lending also spends one allotted session
OfferInc_spend(s) ==
  /\ UNCHANGED quota
  /\ pc[s] = "offer_inc"
  /\ startups' = [startups EXCEPT ![startup_name_to_id[offering_startup_name[s]]] =
                    SetFields(IncField(@, LENT), ALLOTTED :> (Get(@, ALLOTTED, 0) - 1))]
  /\ pc' = [pc EXCEPT ![s] = "offer_done"]
  /\ Disturb(s)
  /\ UNCHANGED <<offers, requests, history, cache, pending, dashLocals, offerLocals, claimLocals>>

\* lines 203-210
OfferInc(s) ==
  /\ UNCHANGED quota
  /\ pc[s] = "offer_inc"
  /\ startups' = [startups EXCEPT ![startup_name_to_id[offering_startup_name[s]]] = IncField(@, LENT)]
  /\ pc' = [pc EXCEPT ![s] = "offer_done"]
  /\ Disturb(s)
  /\ UNCHANGED <<offers, requests, history, cache, pending, dashLocals, offerLocals, claimLocals>>

\* ---------------------------------------------------------- CreateRequest
\* lines 236-245
NewRequest(id, name, topic) ==
  [requesting_startup_id |-> id, requesting_startup_name |-> name, topic |-> topic,
   status |-> "pending", fulfilled_by_offer_id |-> NoneId,
   fulfilled_by_startup_id |-> None, fulfilled_by_startup_name |-> None]

\* lines 230-247
RequestInsert(s) ==
  /\ UNCHANGED quota
  /\ pc[s] = "request_insert"
  /\ \E name \in startup_names, topic \in RequestTopics :
       requests' = Append(requests, NewRequest(startup_name_to_id[name], name, topic))
  /\ pc' = [pc EXCEPT ![s] = "idle"]
  /\ pending' = [pending EXCEPT ![s] = "view"]
  /\ Disturb(s)
  /\ UNCHANGED <<startups, offers, history, cache, dashLocals, offerLocals, claimLocals>>

\* -------------------------------------------------------------- ClaimOffer
\* line 268
available_offers == {i \in 1..Len(offers) : offers[i].status = "available"}

\* lines 270-278; filter is "Todas las Startups" or a company name
filtered_offers(filter) ==
  IF filter \in startup_names
    THEN {i \in available_offers : offers[i].offering_startup_id # startup_name_to_id[filter]}
    ELSE available_offers

\* line 312 comparing the offer's startup name with the claimant's id
OwnOffer_byname(doc, claiming_startup_id) == doc.offering_startup_name = claiming_startup_id

\* line 312
OwnOffer(doc, claiming_startup_id) == doc.offering_startup_id = claiming_startup_id

\* lines 319-323 without the claimant's name
ClaimedFields_noname(doc, claiming_startup_id, name) ==
  [doc EXCEPT !.status = "claimed", !.claimed_by_startup_id = claiming_startup_id]

\* lines 319-323
ClaimedFields(doc, claiming_startup_id, name) ==
  [doc EXCEPT !.status = "claimed", !.claimed_by_startup_id = claiming_startup_id,
              !.claimed_by_startup_name = name]

\* lines 328-332 without the topic in the filter
MatchingRequests_anytopic(claiming_startup_id, topic) ==
  {i \in 1..Len(requests) : /\ requests[i].requesting_startup_id = claiming_startup_id
                            /\ requests[i].status = "pending"}

\* lines 328-332: the documents find_one may return
MatchingRequests(claiming_startup_id, topic) ==
  {i \in 1..Len(requests) : /\ requests[i].requesting_startup_id = claiming_startup_id
                            /\ requests[i].topic = topic
                            /\ requests[i].status = "pending"}

\* lines 337-342
FulfilledFields(req, offer_id, doc) ==
  [req EXCEPT !.status = "fulfilled", !.fulfilled_by_offer_id = offer_id,
              !.fulfilled_by_startup_id = doc.offering_startup_id,
              !.fulfilled_by_startup_name = doc.offering_startup_name]

\* lines 353-362 recording the claimant as the offering startup
HistoryEntry_byclaimant(offer_id, doc, claiming_startup_id, name) ==
  [type |-> "claimed_session", offer_id |-> offer_id,
   offering_startup_id |-> claiming_startup_id,
   offering_startup_name |-> name,
   claiming_startup_id |-> claiming_startup_id, claiming_startup_name |-> name,
   topic |-> doc.topic]

\* lines 353-362
HistoryEntry(offer_id, doc, claiming_startup_id, name) ==
  [type |-> "claimed_session", offer_id |-> offer_id,
   offering_startup_id |-> doc.offering_startup_id,
   offering_startup_name |-> doc.offering_startup_name,
   claiming_startup_id |-> claiming_startup_id, claiming_startup_name |-> name,
   topic |-> doc.topic]

Snapshot == [valid |-> TRUE, startups |-> startups, offers |-> offers,
             requests |-> requests, history |-> history]

\* lines 257-305: the offers listed in this run, the offer and the claimant selected
ClaimSelect(s) ==
  /\ UNCHANGED quota
  /\ pc[s] = "claim_select"
  /\ \E filter \in startup_names \cup {"Todas las Startups"} :
       IF filtered_offers(filter) = {}
         THEN /\ pc' = [pc EXCEPT ![s] = "idle"]
              /\ UNCHANGED <<claimLocals, pre>>
         ELSE \E i \in filtered_offers(filter), name \in startup_names :
                /\ pc' = [pc EXCEPT ![s] = "claim_load"]
                /\ selected_offer_id' = [selected_offer_id EXCEPT ![s] = i]
                /\ claiming_startup_name' = [claiming_startup_name EXCEPT ![s] = name]
                /\ pre' = [pre EXCEPT ![s] = Snapshot]
                /\ UNCHANGED <<selected_offer_doc, matching_request>>
  /\ pending' = [pending EXCEPT ![s] = "view"]
  /\ UNCHANGED <<store, cache, dashLocals, offerLocals>>

\* lines 311-314: load the offer, refuse a claim on one's own offer
ClaimLoad(s) ==
  /\ UNCHANGED quota
  /\ pc[s] = "claim_load"
  /\ selected_offer_doc' = [selected_offer_doc EXCEPT ![s] = offers[selected_offer_id[s]]]
  /\ IF OwnOffer(offers[selected_offer_id[s]], startup_name_to_id[claiming_startup_name[s]])
       THEN pc' = [pc EXCEPT ![s] = "claim_self"]
       ELSE pc' = [pc EXCEPT ![s] = "claim_update_offer"]
  /\ UNCHANGED <<store, cache, pending, dashLocals, offerLocals, selected_offer_id,
                 claiming_startup_name, matching_request, pre>>

\* lines 317-324
ClaimUpdateOffer(s) ==
  /\ UNCHANGED quota
  /\ pc[s] = "claim_update_offer"
  /\ offers' = [offers EXCEPT ![selected_offer_id[s]] =
                  ClaimedFields(@, startup_name_to_id[claiming_startup_name[s]],
                                claiming_startup_name[s])]
  /\ pc' = [pc EXCEPT ![s] = "claim_find"]
  /\ Disturb(s)
  /\ UNCHANGED <<startups, requests, history, cache, pending, dashLocals, offerLocals, claimLocals>>

\* lines 328-334: find_one returns some matching document, or None
ClaimFind(s) ==
  /\ UNCHANGED quota
  /\ pc[s] = "claim_find"
  /\ LET found == MatchingRequests(startup_name_to_id[claiming_startup_name[s]],
                                   selected_offer_doc[s].topic)
     IN IF found = {}
          THEN /\ pc' = [pc EXCEPT ![s] = "claim_inc"]
               /\ UNCHANGED matching_request
          ELSE \E r \in found :
                 /\ pc' = [pc EXCEPT ![s] = "claim_update_request"]
                 /\ matching_request' = [matching_request EXCEPT ![s] = r]
  /\ UNCHANGED <<store, cache, pending, dashLocals, offerLocals, selected_offer_id,
                 claiming_startup_name, selected_offer_doc, pre>>

\* lines 335-343
ClaimUpdateRequest(s) ==
  /\ UNCHANGED quota
  /\ pc[s] = "claim_update_request"
  /\ requests' = [requests EXCEPT ![matching_request[s]] =
                    FulfilledFields(@, selected_offer_id[s], selected_offer_doc[s])]
  /\ pc' = [pc EXCEPT ![s] = "claim_inc"]
  /\ Disturb(s)
  /\ UNCHANGED <<startups, offers, history, cache, pending, dashLocals, offerLocals, claimLocals>>

\* lines 347-350 counting sessions_received only for a fulfilled request
ClaimInc_matched(s) ==
  /\ UNCHANGED quota
  /\ pc[s] = "claim_inc"
  /\ startups' = [startups EXCEPT ![startup_name_to_id[claiming_startup_name[s]]] =
                    IF matching_request[s] # NoneId THEN IncField(@, RECEIVED) ELSE @]
  /\ pc' = [pc EXCEPT ![s] = "claim_history"]
  /\ Disturb(s)
  /\ UNCHANGED <<offers, requests, history, cache, pending, dashLocals, offerLocals, claimLocals>>

\* lines 347-350 adding a received session only below the allotment
ClaimInc_capped(s) ==
  /\ UNCHANGED quota
  /\ pc[s] = "claim_inc"
  /\ startups' = [startups EXCEPT ![startup_name_to_id[claiming_startup_name[s]]] =
                    IF Get(@, RECEIVED, 0) < Get(@, ALLOTTED, 0) THEN IncField(@, RECEIVED) ELSE @]
  /\ pc' = [pc EXCEPT ![s] = "claim_history"]
  /\ Disturb(s)
  /\ UNCHANGED <<offers, requests, history, cache, pending, dashLocals, offerLocals, claimLocals>>

\* lines 347-350 counting only the first claim of an offer
ClaimInc_first(s) ==
  /\ UNCHANGED quota
  /\ pc[s] = "claim_inc"
  /\ startups' = [startups EXCEPT ![startup_name_to_id[claiming_startup_name[s]]] =
                    IF \E k \in 1..Len(history) : history[k].offer_id = selected_offer_id[s]
                      THEN @ ELSE IncField(@, RECEIVED)]
  /\ pc' = [pc EXCEPT ![s] = "claim_history"]
  /\ Disturb(s)
  /\ UNCHANGED <<offers, requests, history, cache, pending, dashLocals, offerLocals, claimLocals>>

\* lines 347-350
ClaimInc(s) ==
  /\ UNCHANGED quota
  /\ pc[s] = "claim_inc"
  /\ startups' = [startups EXCEPT ![startup_name_to_id[claiming_startup_name[s]]] =
                    IncField(@, RECEIVED)]
  /\ pc' = [pc EXCEPT ![s] = "claim_history"]
  /\ Disturb(s)
  /\ UNCHANGED <<offers, requests, history, cache, pending, dashLocals, offerLocals, claimLocals>>

\* lines 353-364
ClaimHistory(s) ==
  /\ UNCHANGED quota
  /\ pc[s] = "claim_history"
  /\ history' = Append(history, HistoryEntry(selected_offer_id[s], selected_offer_doc[s],
                                             startup_name_to_id[claiming_startup_name[s]],
                                             claiming_startup_name[s]))
  /\ pc' = [pc EXCEPT ![s] = "claim_done"]
  /\ Disturb(s)
  /\ UNCHANGED <<startups, offers, requests, cache, pending, dashLocals, offerLocals, claimLocals>>

\* ------------------------------------------------------------ end of a run
ResetLocals(s) ==
  /\ pc' = [pc EXCEPT ![s] = "idle"]
  /\ pending' = [pending EXCEPT ![s] = "view"]
  /\ offering_startup_name' = [offering_startup_name EXCEPT ![s] = None]
  /\ offer_topic' = [offer_topic EXCEPT ![s] = None]
  /\ selected_offer_id' = [selected_offer_id EXCEPT ![s] = NoneId]
  /\ claiming_startup_name' = [claiming_startup_name EXCEPT ![s] = None]
  /\ selected_offer_doc' = [selected_offer_doc EXCEPT ![s] = NoDoc]
  /\ matching_request' = [matching_request EXCEPT ![s] = NoneId]
  /\ pre' = [pre EXCEPT ![s] = NoSnap]
  /\ UNCHANGED <<store, cache, dashLocals>>

\* the positions inside the try blocks of lines 191, 235 and 315
InTry == {"offer_insert", "offer_inc", "request_insert", "claim_update_offer", "claim_find",
          "claim_update_request", "claim_inc", "claim_history"}

\* lines 211, 248, 366: a store call raised; the error is shown and the run ends
StoreError(s) ==
  /\ pc[s] \in InTry
  /\ quota.errors > 0
  /\ quota' = [quota EXCEPT !.errors = @ - 1]
  /\ ResetLocals(s)

\* lines 210, 214, 313, 365: the message is shown (or st.rerun is called) and the run ends
EndRun(s) ==
  /\ pc[s] \in {"offer_done", "offer_ineligible", "claim_self", "claim_done"}
  /\ ResetLocals(s)
  /\ UNCHANGED quota

\* ------------------------------------------------------------------ claims
ClaimantId(s) == startup_name_to_id[claiming_startup_name[s]]
OffererId(s) == startup_name_to_id[offering_startup_name[s]]

\* C1: CreateOffer for an existing startup is rejected as IneligibleToLend exactly when
\* the startup's sessions_allotted_to_receive <= sessions_received at the read of the
\* call, and the rejected call inserts no offer and changes no counter.
C1_IneligibleIff ==
  [][\A s \in Sessions :
       /\ (pc[s] = "offer_read" /\ pc'[s] # "offer_read") =>
            LET doc == startups[startup_name_to_id[offering_startup_name'[s]]]
            IN /\ (pc'[s] = "offer_ineligible") <=> (doc[ALLOTTED] <= doc[RECEIVED])
               /\ (pc'[s] # "offer_ineligible") => (pc'[s] = "offer_insert")
               /\ (pc'[s] = "offer_ineligible") => UNCHANGED store
       /\ (pc[s] = "offer_ineligible" /\ pc'[s] # "offer_ineligible") => UNCHANGED store
    ]_vars

\* a startup that has received its two allotted sessions is refused
C1_Witness ==
  \E s \in Sessions :
    /\ pc[s] = "offer_ineligible"
    /\ startups[OffererId(s)][ALLOTTED] = 2
    /\ startups[OffererId(s)][RECEIVED] = 2

\* C2: a successful CreateOffer inserts exactly one new offer, 'available' with null
\* claimed_by fields, adds exactly 1 to the offering startup's sessions_lent, and leaves
\* its other counters, the other startups, the existing offers, the requests and the
\* history as they were.
C2_OfferEffect ==
  [][\A s \in Sessions :
       /\ (pc[s] = "offer_insert" /\ pc'[s] = "offer_inc") =>
            /\ Len(offers') = Len(offers) + 1
            /\ SubSeq(offers', 1, Len(offers)) = offers
            /\ offers'[Len(offers')].offering_startup_id = OffererId(s)
            /\ offers'[Len(offers')].status = "available"
            /\ offers'[Len(offers')].claimed_by_startup_id = None
            /\ offers'[Len(offers')].claimed_by_startup_name = None
            /\ UNCHANGED <<startups, requests, history>>
       /\ (pc[s] = "offer_inc" /\ pc'[s] = "offer_done") =>
            /\ DOMAIN startups' = DOMAIN startups
            /\ startups'[OffererId(s)][LENT] = startups[OffererId(s)][LENT] + 1
            /\ startups'[OffererId(s)][ALLOTTED] = startups[OffererId(s)][ALLOTTED]
            /\ startups'[OffererId(s)][RECEIVED] = startups[OffererId(s)][RECEIVED]
            /\ \A i \in DOMAIN startups : i # OffererId(s) => startups'[i] = startups[i]
            /\ UNCHANGED <<offers, requests, history>>
       /\ (pc[s] = "offer_done" /\ pc'[s] # "offer_done") => UNCHANGED store
    ]_vars

\* an offer was created while another offer, a request and a history entry existed
C2_Witness ==
  \E s \in Sessions :
    /\ pc[s] = "offer_done"
    /\ Len(offers) = 2
    /\ Len(requests) > 0
    /\ Len(history) > 0

\* C3: ClaimOffer is rejected as InvalidClaim exactly when the claimant is the offer's
\* offering startup, and the rejected claim changes no offer (an available offer stays
\* available), no request, no counter and no history record.
C3_SelfClaimIff ==
  [][\A s \in Sessions :
       /\ (pc[s] = "claim_load" /\ pc'[s] # "claim_load") =>
            /\ (pc'[s] = "claim_self") <=>
                 (ClaimantId(s) = offers[selected_offer_id[s]].offering_startup_id)
            /\ (pc'[s] # "claim_self") => (pc'[s] = "claim_update_offer")
            /\ (pc'[s] = "claim_self") => UNCHANGED store
       /\ (pc[s] = "claim_self" /\ pc'[s] # "claim_self") => UNCHANGED store
    ]_vars

\* a startup tried to claim its own available offer
C3_Witness ==
  \E s \in Sessions :
    /\ pc[s] = "claim_self"
    /\ offers[selected_offer_id[s]].status = "available"
    /\ offers[selected_offer_id[s]].offering_startup_id = ClaimantId(s)

\* the positions of a claim after the offer was loaded
ClaimWriting == {"claim_update_offer", "claim_find", "claim_update_request", "claim_inc",
                 "claim_history"}

\* C4: ClaimOffer on an offer whose status is not 'available' (already claimed) fails
\* with NotFound and changes no offer, request, counter or history record: a claim that
\* loaded an offer that is not available goes no further and writes nothing.
C4_NotAvailableRejected ==
  [][\A s \in Sessions :
       /\ (pc[s] = "claim_load" /\ pc'[s] # "claim_load"
             /\ offers[selected_offer_id[s]].status # "available") =>
            /\ pc'[s] \notin ClaimWriting
            /\ UNCHANGED store
       /\ (pc[s] \in ClaimWriting /\ pc'[s] # pc[s]
             /\ selected_offer_doc[s].status # "available") => UNCHANGED store
    ]_vars

PendingFor(c, o) ==
  {r \in 1..Len(requests) : /\ requests[r].requesting_startup_id = c
                            /\ requests[r].topic = offers[o].topic
                            /\ requests[r].status = "pending"}

\* C6: in a successful ClaimOffer, if the search finds pending requests of the claimant
\* on the offer's topic, exactly one of them is made 'fulfilled' and stamped with the
\* offer's id and the offering startup's id and name; every other request is left as it
\* was; and if the search finds none, the claim touches no request.
C6_MatchFulfilled ==
  [][\A s \in Sessions :
       /\ (pc[s] = "claim_find" /\ pc'[s] \in ClaimWriting \ {"claim_find"}) =>
            IF PendingFor(ClaimantId(s), selected_offer_id[s]) = {}
              THEN pc'[s] = "claim_inc" /\ matching_request'[s] = NoneId
              ELSE /\ pc'[s] = "claim_update_request"
                   /\ matching_request'[s] \in PendingFor(ClaimantId(s), selected_offer_id[s])
       /\ (pc[s] = "claim_update_request" /\ pc'[s] = "claim_inc") =>
            LET r == matching_request[s]
                o == selected_offer_id[s]
            IN /\ Len(requests') = Len(requests)
               /\ requests'[r] = [requests[r] EXCEPT
                                    !.status = "fulfilled",
                                    !.fulfilled_by_offer_id = o,
                                    !.fulfilled_by_startup_id = offers[o].offering_startup_id,
                                    !.fulfilled_by_startup_name = offers[o].offering_startup_name]
               /\ \A q \in 1..Len(requests) : q # r => requests'[q] = requests[q]
       /\ (pc[s] \in (ClaimWriting \cup {"claim_load", "claim_done"}) \ {"claim_update_request"}
             /\ pc'[s] # pc[s]) => requests' = requests
    ]_vars

\* a request was fulfilled while a duplicate of it, a request of another startup and
\* nothing else stayed pending
C6_Witness ==
  \E s \in Sessions :
    /\ pc[s] = "claim_inc"
    /\ matching_request[s] # NoneId
    /\ requests[matching_request[s]].status = "fulfilled"
    /\ \E q \in 1..Len(requests) :
         /\ q # matching_request[s]
         /\ requests[q].status = "pending"
         /\ requests[q].requesting_startup_id = ClaimantId(s)
         /\ requests[q].topic = requests[matching_request[s]].topic

\* the startups an operation has involved: they offered, requested or claimed
Involved ==
  {offers[i].offering_startup_id : i \in 1..Len(offers)}
    \cup {requests[i].requesting_startup_id : i \in 1..Len(requests)}
    \cup {history[i].claiming_startup_id : i \in 1..Len(history)}

\* C7: after any sequence of operations the three stored counters of a startup are all
\* present and each is >= 0 (stated for the startups the operations involved; the record
\* of a startup no operation has read is as registration left it).
C7_CountersPresent ==
  \A i \in Involved :
    /\ CounterFields \subseteq DOMAIN startups[i]
    /\ \A f \in CounterFields : startups[i][f] >= 0

\* C8: an offer is mutated exactly once: once its status is 'claimed', its status and
\* claimed_by fields are never written again.
C8_OfferWrittenOnce ==
  [][\A i \in 1..Len(offers) :
       offers[i].status = "claimed" => offers'[i] = offers[i]
    ]_vars

\* C9: a request is mutated at most once: once it is 'fulfilled', its status and
\* fulfilled_by fields never change again.
C9_RequestWrittenOnce ==
  [][\A r \in 1..Len(requests) :
       requests[r].status = "fulfilled" => requests'[r] = requests[r]
    ]_vars

\* C10: an offer's claimed_by id and name are non-null exactly when it is 'claimed', and
\* a request's fulfilled_by offer id, startup id and startup name are non-null exactly
\* when it is 'fulfilled'.
C10_OptionalFields ==
  /\ \A i \in 1..Len(offers) :
       /\ (offers[i].claimed_by_startup_id # None) <=> (offers[i].status = "claimed")
       /\ (offers[i].claimed_by_startup_name # None) <=> (offers[i].status = "claimed")
  /\ \A r \in 1..Len(requests) :
       /\ (requests[r].fulfilled_by_offer_id # NoneId) <=> (requests[r].status = "fulfilled")
       /\ (requests[r].fulfilled_by_startup_id # None) <=> (requests[r].status = "fulfilled")
       /\ (requests[r].fulfilled_by_startup_name # None) <=> (requests[r].status = "fulfilled")

\* a claimed and an available offer beside a fulfilled request
C10_Witness ==
  /\ \E i \in 1..Len(offers) : offers[i].status = "claimed"
  /\ \E i \in 1..Len(offers) : offers[i].status = "available"
  /\ \E r \in 1..Len(requests) : requests[r].status = "fulfilled"

\* C11: the counter backfill sets each absent counter of the selected startup to its
\* default (2, 0, 0) and never changes the stored value of a counter that is present;
\* on a startup whose three counters are all stored it changes nothing.
C11_BackfillOnlyAbsent ==
  [][\A s \in Sessions :
       (pc[s] = "backfill" /\ pc'[s] = "rerun") =>
         LET id == startup_name_to_id[selected_name[s]]
         IN /\ \A f \in CounterFields :
                 startups'[id][f] = Get(startups[id], f, DefaultCounters[f])
            /\ (CounterFields \subseteq DOMAIN startups[id]) => startups' = startups
    ]_vars

\* C12: ClaimOffer is all-or-nothing: once no claim on it is in progress, a claimed
\* offer has its history entry and its claimant's sessions_received counts it.
C12_AllOrNothing ==
  \A i \in 1..Len(offers) :
    (/\ offers[i].status = "claimed"
     /\ ~\E s \in Sessions : pc[s] \in ClaimWriting /\ selected_offer_id[s] = i) =>
      /\ \E k \in 1..Len(history) : history[k].offer_id = i
      /\ Get(startups[offers[i].claimed_by_startup_id], RECEIVED, 0) >= 1

\* the history entries of offer i
HistoryOf(i) == {k \in 1..Len(history) : history[k].offer_id = i}

\* C13: two claims of one available offer by two different startups, neither the
\* offering one, that both loaded the offer before either wrote 'claimed' both complete:
\* whenever an offer has history entries of two claimants, the offer is 'claimed' by one
\* of them, neither is the offering startup, and sessions_received of each counts its
\* claim.
C13_DoubleClaimCounted ==
  \A i \in 1..Len(offers) : \A k, l \in HistoryOf(i) :
    history[k].claiming_startup_id # history[l].claiming_startup_id =>
      /\ offers[i].status = "claimed"
      /\ offers[i].claimed_by_startup_id \in
           {history[k].claiming_startup_id, history[l].claiming_startup_id}
      /\ history[k].claiming_startup_id # offers[i].offering_startup_id
      /\ startups[history[k].claiming_startup_id][RECEIVED] >=
           Cardinality({h \in 1..Len(history) :
                          history[h].claiming_startup_id = history[k].claiming_startup_id})

\* one offer, two history entries, two claimants, each with one session received
C13_Witness ==
  \E i \in 1..Len(offers) : \E k, l \in HistoryOf(i) :
    /\ history[k].claiming_startup_id # history[l].claiming_startup_id
    /\ offers[i].status = "claimed"
    /\ startups[history[k].claiming_startup_id][RECEIVED] = 1
    /\ startups[history[l].claiming_startup_id][RECEIVED] = 1

\* C14: a backfill that interleaves with an increment on the same startup overwrites it:
\* the write stores, for all three counters, the values of the snapshot the run decided
\* on, whatever the store holds, so a counter incremented since that snapshot is lower
\* after the write than before it.
C14_BackfillWritesSnapshot ==
  [][\A s \in Sessions :
       (pc[s] = "backfill" /\ pc'[s] = "rerun") =>
         LET id == startup_name_to_id[selected_name[s]]
         IN \A f \in CounterFields :
              /\ startups'[id][f] = selected_startup_data[s][f]
              /\ Get(startups[id], f, 0) > selected_startup_data[s][f] =>
                   startups'[id][f] < startups[id][f]
    ]_vars

\* a backfill has just been written for a startup whose completed claim is in the
\* history, and its sessions_received is 0 again
C14_Witness ==
  \E s \in Sessions :
    /\ pc[s] = "rerun"
    /\ \E k \in 1..Len(history) :
         history[k].claiming_startup_id = startup_name_to_id[selected_name[s]]
    /\ startups[startup_name_to_id[selected_name[s]]][RECEIVED] = 0

\* C15: CreateOffer's eligibility check takes the allotment of a startup whose counter
\* fields are not stored as 2: a startup without a stored allotment that has received
\* no session is eligible and goes on to insert its offer.
C15_AbsentCountersEligible ==
  [][\A s \in Sessions :
       (pc[s] = "offer_read" /\ pc'[s] # "offer_read") =>
         LET doc == startups[startup_name_to_id[offering_startup_name'[s]]]
         IN (ALLOTTED \notin DOMAIN doc /\ Get(doc, RECEIVED, 0) = 0) =>
              pc'[s] = "offer_insert"
    ]_vars

C17_HistoryReferencesClaimed ==
  \A k \in 1..Len(history) :
    /\ history[k].offer_id \in 1..Len(offers)
    /\ offers[history[k].offer_id].status = "claimed"
    /\ history[k].offering_startup_id = offers[history[k].offer_id].offering_startup_id
    /\ history[k].offering_startup_name = offers[history[k].offer_id].offering_startup_name
    /\ history[k].topic = offers[history[k].offer_id].topic

\* the history records the claims of two offers of different startups
C17_Witness ==
  \E k, l \in 1..Len(history) :
    /\ history[k].offer_id # history[l].offer_id
    /\ history[k].offering_startup_id # history[l].offering_startup_id

\* C18: each fulfilled request's fulfilled_by_offer_id references an offer that is
\* 'claimed', has the request's topic, is offered by the request's
\* fulfilled_by_startup_id and is claimed by the requesting startup.
C18_FulfilledReferencesClaim ==
  \A r \in 1..Len(requests) :
    requests[r].status = "fulfilled" =>
      /\ requests[r].fulfilled_by_offer_id \in 1..Len(offers)
      /\ LET o == offers[requests[r].fulfilled_by_offer_id]
         IN /\ o.status = "claimed"
            /\ o.topic = requests[r].topic
            /\ o.offering_startup_id = requests[r].fulfilled_by_startup_id
            /\ o.claimed_by_startup_id = requests[r].requesting_startup_id

\* C19: when no operation is in progress, each startup's sessions_lent is the number
\* of its offers, its sessions_received is the number of history entries of its claims,
\* and there are as many history entries as claimed offers.
C19_Conservation ==
  (\A s \in Sessions : pc[s] = "idle") =>
    /\ \A i \in DOMAIN startups :
         /\ Get(startups[i], LENT, 0) =
              Cardinality({o \in 1..Len(offers) : offers[o].offering_startup_id = i})
         /\ Get(startups[i], RECEIVED, 0) =
              Cardinality({k \in 1..Len(history) : history[k].claiming_startup_id = i})
    /\ Len(history) = Cardinality({o \in 1..Len(offers) : offers[o].status = "claimed"})

\* C20: the backfill settles after one write: the run restarted after the write finds
\* the counters present and does not reach the write again.
C20_BackfillSettles ==
  [][\A s \in Sessions :
       (pc[s] = "rerun" /\ pc'[s] # "rerun") => pc'[s] # "backfill"
    ]_vars

Dashboard ==
  \/ \E s \in Sessions : Backfill(s)
  \/ \E s \in Sessions : BackfillFail(s)
  \/ \E s \in Sessions : Rerun(s)
  \/ CacheExpire

Offering ==
  \/ \E s \in Sessions : Interact(s)
  \/ \E s \in Sessions : OfferRead(s)
  \/ \E s \in Sessions : OfferInsert(s)
  \/ \E s \in Sessions : OfferInc(s)
  \/ \E s \in Sessions : EndRun(s)

Claiming ==
  \/ \E s \in Sessions : ClaimSelect(s)
  \/ \E s \in Sessions : ClaimLoad(s)
  \/ \E s \in Sessions : ClaimUpdateOffer(s)
  \/ \E s \in Sessions : ClaimFind(s)
  \/ \E s \in Sessions : ClaimInc(s)
  \/ \E s \in Sessions : ClaimHistory(s)

Requesting ==
  \/ \E s \in Sessions : RequestInsert(s)
  \/ \E s \in Sessions : ClaimUpdateRequest(s)

Failing == \E s \in Sessions : StoreError(s)

\* every startup already has its counters: the initialisation block never writes
Next == Offering \/ Claiming \/ Requesting \/ Failing
Spec == Init /\ [][Next]_vars

\* startups without counters, the cached list and its expiry, no requests
NextLedger == Dashboard \/ Offering \/ Claiming \/ Failing
SpecLedger == InitLedger /\ [][NextLedger]_vars

\* three startups, no store errors
NextRace == Offering \/ Claiming \/ Requesting
SpecRace == InitRace /\ [][NextRace]_vars

\* offers and claims only, up to three offers
NextAllot == Offering \/ Claiming
SpecAllot == InitAllot /\ [][NextAllot]_vars

====
